---------------------------- MODULE Spec2Model ----------------------------
(***************************************************************************)
(* The .als catalog-synchronisation engine of studio_project_manager:      *)
(* process_file (db_manager.py), the startup scan (initial_scan, run as a  *)
(* process of its own by main.py) and the watchdog handler                 *)
(* (file_watcher.py), over a small filesystem.                             *)
(*                                                                         *)
(* The catalog variable db holds the COMMITTED content of the five tables. *)
(* A handler is one action: it computes every flush and commit the code    *)
(* performs, in order, and leaves in db what the last successful commit    *)
(* left there.  An exception that leaves a handler is never caught by the  *)
(* repository: in the scan it ends the scan process (main.py then starts   *)
(* the watcher all the same), in the watcher it ends watchdog's dispatch   *)
(* thread, so the session that raised is never used again.                 *)
(***************************************************************************)
EXTENDS Integers, Sequences, FiniteSets

VARIABLES
    fs,        \* the watched directory: path -> Some(content id), or Null (no file)
    ops,       \* number of file operations the user has performed
    queue,     \* watchdog's event queue, in arrival order
    phase,     \* "scan" (db_manager.py runs), "watch" (file_watcher.py runs), "dead"
    scanTodo,  \* paths initial_scan has still to process
    db,        \* committed catalog: the five tables
    nextUuid,  \* uuid.uuid4() never repeats: a fresh number per AbletonLiveSet()
    last,      \* history: what the last step did (read by the properties only)
    lastFs,    \* history: the user's last file operation (properties only)
    live_db,   \* the plugin names in Ableton's own database (the inventory)
    installed_plugins_from_ableton,
               \* Plugin's class attribute in the running process
    config_toml,      \* config.toml: the list directories.paths in the file
    calls,            \* the add_directory / remove_directory calls under way
    config_at_start   \* history: the list before the calls (properties only)

scanVars == <<fs, ops, queue, phase, scanTodo, db, nextUuid, last, lastFs,
              live_db, installed_plugins_from_ableton>>

configVars == <<config_toml, calls, config_at_start>>

vars == <<fs, ops, queue, phase, scanTodo, db, nextUuid, last, lastFs,
          live_db, installed_plugins_from_ableton,
          config_toml, calls, config_at_start>>

-----------------------------------------------------------------------------
(* Bounds of the model *)

MaxOps == 2

\* Files that exist at one time under the configured roots.
MaxFiles == 2

\* Files that exist under the configured roots when the program starts.
MaxStartFiles == 1

\* Times the one project file is saved again.
MaxRewrites == 1

\* The largest encoded time signature of a file.
MaxEncoded == 200

-----------------------------------------------------------------------------
(* Values *)

\* A nullable value (a column, an attribute, an XML attribute that may be
\* absent) is Null or Some(v).
Null == <<>>
Some(v) == <<v>>
Val(x) == x[1]

\* Python's float as an exact fraction in lowest terms.
RECURSIVE Gcd(_, _)
Gcd(a, b) == IF b = 0 THEN a ELSE Gcd(b, a % b)
Abs(n) == IF n < 0 THEN -n ELSE n
Frac(n, d) ==
    LET g == Gcd(Abs(n), Abs(d))
    IN IF n = 0 THEN [num |-> 0, den |-> 1] ELSE [num |-> n \div g, den |-> d \div g]

\* Python values that the type decorators convert: an int and its str().
PyInt(n) == [t |-> "int", v |-> n]
PyStr(n) == [t |-> "str", v |-> n]
PyFloat(q) == [t |-> "float", v |-> q]

\* str(x): of an int or a float the digits of the number, with a point for a
\* float ("4", "0.5"); of a str the str itself.
str(x) ==
    IF x.t = "str" THEN x.v
    ELSE IF x.t = "int" THEN [num |-> x.v, den |-> 1, point |-> FALSE]
    ELSE [num |-> x.v.num, den |-> x.v.den, point |-> TRUE]

\* pathlib.Path: parent directory components, stem, suffix.
MkPath(parents, stem) == [parents |-> parents, stem |-> stem, suffix |-> ".als"]

\* config["directories"]["paths"]: the configured roots.
directories_paths == <<"Music", "Live">>

\* db_manager.main and file_watcher.main: DIR is the first configured root.
DIR == directories_paths[1]

Paths ==
    {MkPath(<<"Music">>, "a"), MkPath(<<"Music">>, "b"),
     MkPath(<<"Music", "Backup">>, "a"), MkPath(<<"Live">>, "a")}

Max(S) == CHOOSE x \in S : \A y \in S : y <= x

SeqToSet(s) == {s[i] : i \in DOMAIN s}

-----------------------------------------------------------------------------
(* File contents.  A content id stands for the bytes of one .als file; Als *)
(* gives what the extractors find in it.                                   *)
(*   gzip: the envelope decompresses; xml: the payload parses;             *)
(*   version: the numbers in the root's Creator ("Ableton Live 11.0.0");   *)
(*   tempo: Tempo/Manual@Value; enum_event: Value of the                   *)
(*   EnumEvent[@Time="-63072000"], Null when the marker is absent;         *)
(*   current_end: the CurrentEnd values; vst3 / vst: the                   *)
(*   Vst3PluginInfo/Name and VstPluginInfo/PlugName values in document     *)
(*   order; sample_refs: the SampleRef FileRef/Path values in document     *)
(*   order (the form of Live 11); sample_data: the text of the SampleRef   *)
(*   FileRef/Data elements in document order (the form before Live 11);    *)
(*   midi_clips: the MidiClip elements in document order.                  *)

\* The files that the user's operations write.
Contents == 1..5

\* Further files, met by a scan of a directory that holds one file.
ProbeContents == 6..13

\* The encoded time signatures of the files EncodedBase + v.
EncodedValues == (-(MaxEncoded \div 2))..MaxEncoded

EncodedBase == Max(ProbeContents) + (MaxEncoded \div 2) + 1

EncodedContents == {EncodedBase + v : v \in EncodedValues}

\* The text of a FileRef/Data element: Null for an element without text
\* (<Data/>), else what the text is: "blank" (white space only), "nothex" (not
\* hexadecimal), "odd" (hexadecimal of bytes that are no UTF-16), or "utf16"
\* (hexadecimal of the UTF-16 bytes of a path).
DataText(kind, path) == Some([kind |-> kind, path |-> path])

\* An element with a Value attribute and a number of child elements.
Element(value, children) == [Value |-> value, children |-> children]

\* A MidiClip: IsInKey's Value, and the RootNote and Name elements of its
\* ScaleInformation (leaves, as Live writes them, when children is 0).
MidiClip(is_in_key, root_note, name, children) ==
    [is_in_key |-> is_in_key,
     root_note |-> Element(root_note, children), name |-> Element(name, children)]

\* A Live 11 file: tempo 120, the marker of 4/1, nothing else.
Plain ==
    [gzip |-> TRUE, xml |-> TRUE, version |-> <<11, 0, 0>>,
     tempo |-> Some(120), enum_event |-> Some(3), current_end |-> <<>>,
     vst3 |-> <<>>, vst |-> <<>>, sample_refs |-> <<>>, sample_data |-> <<>>,
     midi_clips |-> <<>>]

Als(c) ==
    CASE c = 1 -> [Plain EXCEPT !.vst3 = <<"Serum">>,
                                !.sample_refs = <<"kick.wav", "kick.wav">>]
      [] c = 2 -> [Plain EXCEPT !.tempo = Some(140), !.vst3 = <<"Serum", "Serum">>,
                                !.vst = <<"Serum">>]
      [] c = 3 -> [Plain EXCEPT !.current_end = <<8, 16>>,
                                !.sample_refs = <<"kick.wav", "snare.wav">>]
      [] c = 4 -> [Plain EXCEPT !.enum_event = Null, !.vst3 = <<"Serum">>,
                                !.sample_refs = <<"kick.wav">>]
      [] c = 5 -> [Plain EXCEPT !.xml = FALSE, !.tempo = Null, !.enum_event = Null]
      \* 3/1 with clips
      [] c = 6 -> [Plain EXCEPT !.enum_event = Some(2), !.current_end = <<9, 6>>]
      \* tempo 0 with clips
      [] c = 7 -> [Plain EXCEPT !.tempo = Some(0), !.current_end = <<8>>]
      \* three clips in a key, two in C Major and one in D Minor, and one not
      [] c = 8 -> [Plain EXCEPT !.midi_clips =
                      <<MidiClip("true", 2, "Minor", 0), MidiClip("true", 0, "Major", 0),
                        MidiClip("false", 4, "Minor", 0), MidiClip("true", 0, "Major", 0)>>]
      \* the same clips, RootNote and Name with a child element each
      [] c = 9 -> [Plain EXCEPT !.midi_clips =
                      <<MidiClip("true", 2, "Minor", 1), MidiClip("true", 0, "Major", 1),
                        MidiClip("false", 4, "Minor", 1), MidiClip("true", 0, "Major", 1)>>]
      \* Live 10: two paths, and two references that do not decode
      [] c = 10 -> [Plain EXCEPT !.version = <<10, 1, 30>>,
                       !.midi_clips = <<MidiClip("true", 0, "Major", 0)>>,
                       !.sample_data =
                          <<DataText("utf16", "kick.wav"), DataText("nothex", ""),
                            DataText("odd", ""), DataText("utf16", "snare.wav")>>]
      \* Live 10: two paths, and a reference whose Data has no text
      [] c = 11 -> [Plain EXCEPT !.version = <<10, 1, 30>>,
                       !.sample_data =
                          <<DataText("utf16", "kick.wav"), Null,
                            DataText("utf16", "snare.wav")>>]
      \* Live 10: one path, and a reference whose Data is white space
      [] c = 12 -> [Plain EXCEPT !.version = <<10, 1, 30>>,
                       !.sample_data =
                          <<DataText("utf16", "kick.wav"), DataText("blank", "")>>]
      \* Live 11 without clips and with the marker of 4/4
      [] c = 13 -> [Plain EXCEPT !.enum_event = Some(201)]
      [] OTHER -> [Plain EXCEPT !.enum_event = Some(c - EncodedBase)]

\* hashlib.sha256 of the file's bytes: one digest per content.
get_file_hash(c) == [sha256 |-> c]

-----------------------------------------------------------------------------
(* Type decorators (utilities.py).  The column holds text; what the ORM    *)
(* hands back after a commit (expire_on_commit) or in a new process is     *)
(* process_result_value of that text.                                      *)

\* '/'.join(map(str, value)): the text of each component, joined.
TimeSignatureType_bind(value) ==
    IF value = Null THEN Null
    ELSE Some([sep |-> "/", parts |-> [i \in DOMAIN Val(value) |-> str(Val(value)[i])]])

\* tuple(value.split('/')): a tuple of str.
TimeSignatureType_result(text) ==
    IF text = Null THEN Null
    ELSE Some([i \in DOMAIN Val(text).parts |-> PyStr(Val(text).parts[i])])

\* '.'.join(map(str, value))
VersionType_bind(value) ==
    IF value = Null THEN Null
    ELSE Some([sep |-> ".", parts |-> [i \in DOMAIN Val(value) |-> str(Val(value)[i])]])

\* tuple(value.split('.')): a tuple of str.
VersionType_result(text) ==
    IF text = Null THEN Null
    ELSE Some([i \in DOMAIN Val(text).parts |-> PyStr(Val(text).parts[i])])

\* "{:03}:{:02}:{:06.3f}" of the hours, minutes and seconds of a timedelta: the
\* text holds the duration in whole milliseconds (the nearest).
TimeDeltaType_bind(value) ==
    IF value = Null THEN Null
    ELSE Some([milliseconds |->
                  (2 * Val(value).num * 1000 + Val(value).den) \div (2 * Val(value).den)])

\* timedelta(hours=..., minutes=..., seconds=...) of the three numbers.
TimeDeltaType_result(text) ==
    IF text = Null THEN Null ELSE Some(Frac(Val(text).milliseconds, 1000))

-----------------------------------------------------------------------------
(* The catalog store *)

EmptyDb ==
    [ableton_live_sets |-> {}, plugins |-> {}, samples |-> {},
     ableton_live_set_plugins |-> {}, ableton_live_set_samples |-> {}]

\* SQLite INTEGER PRIMARY KEY / rowid without AUTOINCREMENT: largest key + 1.
NextKey(keys) == IF keys = {} THEN 1 ELSE Max(keys) + 1

\* AbletonLiveSet.__init__: the object before parse_all, not yet in a table
\* (identifier 0: None, no key yet; SQLite's keys start at 1).
AbletonLiveSet(path, uuid) ==
    [identifier |-> 0, uuid |-> uuid, path |-> path, file_hash |-> Null,
     name |-> Null, tempo |-> Null, time_signature |-> Null,
     furthest_bar |-> Null, estimated_duration |-> Null,
     key |-> Null, major_version |-> Null, major_minor_patch |-> Null]

\* A table row as the ORM loads it into an object.
LoadRow(r) ==
    [r EXCEPT !.time_signature = TimeSignatureType_result(@),
              !.major_minor_patch = VersionType_result(@),
              !.estimated_duration = TimeDeltaType_result(@)]

\* An object as the flush binds it into a table row.
BindRow(o) ==
    [o EXCEPT !.time_signature = TimeSignatureType_bind(@),
              !.major_minor_patch = VersionType_bind(@),
              !.estimated_duration = TimeDeltaType_bind(@)]

\* session.query(AbletonLiveSet).filter_by(path=...).first(): the row of lowest
\* rowid among the matches, as an object; NoRow when there is none.
NoRow == [identifier |-> 0]
Found(o) == o.identifier # 0

FirstOf(rows) ==
    IF rows = {} THEN NoRow
    ELSE LoadRow(CHOOSE r \in rows : \A q \in rows : r.identifier <= q.identifier)

lookup_by_path(d, path) == FirstOf({r \in d.ableton_live_sets : r.path = path})

lookup_by_hash(d, hash) == FirstOf({r \in d.ableton_live_sets : r.file_hash = hash})

\* The flush of one AbletonLiveSet object: INSERT when it has no identifier yet,
\* UPDATE of its row otherwise.  Gives the tables and the object (with its key).
Flush(d, o) ==
    IF o.identifier = 0
    THEN LET k == NextKey({r.identifier : r \in d.ableton_live_sets})
             n == [o EXCEPT !.identifier = k]
         IN [db |-> [d EXCEPT !.ableton_live_sets = @ \cup {BindRow(n)}], row |-> n]
    ELSE [db |-> [d EXCEPT !.ableton_live_sets =
                     {r \in @ : r.identifier # o.identifier} \cup {BindRow(o)}],
          row |-> o]

\* The UNIQUE constraints of the schema: ableton_live_sets.uuid and .file_hash
\* (db_manager.py 337, 341), plugins (name, version) (295), samples.path (316).
\* SQLite lets any number of NULLs into a UNIQUE column.
UniqueOk(d) ==
    /\ \A r, q \in d.ableton_live_sets :
          r # q => /\ r.uuid # q.uuid
                   /\ (r.file_hash # Null => r.file_hash # q.file_hash)
    /\ \A x, y \in d.plugins :
          x # y => <<x.name, x.version>> # <<y.name, y.version>>
    /\ \A x, y \in d.samples : x # y => x.path # y.path

-----------------------------------------------------------------------------
(* Field extractors (AbletonLiveSet methods).  Each takes and gives the    *)
(* state of the pass: result, the exception that has left parse_all ("ok"  *)
(* while none has); db, the tables as last committed; row, the object with *)
(* what is not yet flushed.  Once an exception is raised nothing runs.     *)

Pass(d, o) == [result |-> "ok", db |-> d, row |-> o]

Raise(s, exception) == [s EXCEPT !.result = exception]

update_name(s) ==
    IF s.result # "ok" THEN s
    ELSE [s EXCEPT !.row.name = Some(s.row.path.stem)]

\* Variant: the object is flushed and committed before the error leaves.
load_xml_data_committed(s, f) ==
    IF s.result # "ok" THEN s
    ELSE IF ~f.gzip THEN Raise([s EXCEPT !.db = Flush(s.db, s.row).db], "BadGzipFile")
    ELSE IF ~f.xml THEN Raise([s EXCEPT !.db = Flush(s.db, s.row).db], "AttributeError")
    ELSE s

\* load_xml_data lets gzip's error through; after a ParseError xml_root is None
\* and load_version's self.xml_root.get raises AttributeError.
load_xml_data(s, f) ==
    IF s.result # "ok" THEN s
    ELSE IF ~f.gzip THEN Raise(s, "BadGzipFile")
    ELSE IF ~f.xml THEN Raise(s, "AttributeError")
    ELSE s

\* load_version: the numbers parsed from Creator, as ints.
load_version(s, f) ==
    IF s.result # "ok" THEN s
    ELSE [s EXCEPT !.row.major_minor_patch =
                       Some([i \in DOMAIN f.version |-> PyInt(f.version[i])]),
                   !.row.major_version = Some(f.version[1])]

\* update_tempo: float(None) raises TypeError when the element is absent.
update_tempo(s, f) ==
    IF s.result # "ok" THEN s
    ELSE IF f.tempo = Null THEN Raise(s, "TypeError")
    ELSE [s EXCEPT !.row.tempo = f.tempo]

\* The object's time_signature as it is BEFORE this pass's update_time_signature.
beats_per_bar_of(o) ==
    IF o.time_signature # Null THEN Val(o.time_signature)[1] ELSE PyInt(4)

\* update_furthest_bar: float / str raises TypeError.
update_furthest_bar(s, f) ==
    IF s.result # "ok" THEN s
    ELSE IF f.current_end = <<>>
    THEN [s EXCEPT !.row.furthest_bar = Some(Frac(0, 1))]
    ELSE IF beats_per_bar_of(s.row).t = "str" THEN Raise(s, "TypeError")
    ELSE [s EXCEPT !.row.furthest_bar =
             Some(Frac(Max(SeqToSet(f.current_end)), beats_per_bar_of(s.row).v))]

\* The path that update_samples decodes from the text of a Data element that
\* decodes: bytearray.fromhex of white space is empty, it decodes to "" and
\* str(pathlib.Path("")) is ".".
decoded_path(text) == IF Val(text).kind = "blank" THEN "." ELSE Val(text).path

\* The set sample_paths of update_samples.  Before Live 11: the Data texts that
\* are hexadecimal and decode (ValueError and UnicodeDecodeError are caught and
\* the reference is skipped).  From Live 11: the Path values.
sample_paths(f) ==
    IF f.version[1] < 11
    THEN {decoded_path(f.sample_data[i]) :
             i \in {j \in DOMAIN f.sample_data :
                       /\ f.sample_data[j] # Null
                       /\ Val(f.sample_data[j]).kind \in {"utf16", "blank"}}}
    ELSE SeqToSet(f.sample_refs)

\* The loop of update_samples over the SampleRef elements before Live 11:
\* data_element.text.replace (line 652) is outside the try, and the text of an
\* element without text is None: AttributeError leaves the method.
collect_sample_paths(s, f) ==
    IF s.result # "ok" THEN s
    ELSE IF Val(s.row.major_minor_patch)[1].v < 11
            /\ \E i \in DOMAIN f.sample_data : f.sample_data[i] = Null
    THEN Raise(s, "AttributeError")
    ELSE s

\* session.query(Sample).filter_by(path=...).first()
find_sample(d, path) == {x \in d.samples : x.path = path}

first_sample(d, path) ==
    CHOOSE x \in find_sample(d, path) : \A y \in find_sample(d, path) : x.id <= y.id

\* "if not sample: sample = Sample(...); session.add(sample); session.flush()"
insert_sample(d, path) ==
    IF find_sample(d, path) # {} THEN d
    ELSE [d EXCEPT !.samples = @ \cup
            {[id |-> NextKey({x.id : x \in d.samples}),
              path |-> path, is_present |-> TRUE]}]

\* Variant: the append without the membership test.
link_sample_append(d, pid, sid) ==
    [d EXCEPT !.ableton_live_set_samples = @ \cup
        {[rowid |-> NextKey({l.rowid : l \in d.ableton_live_set_samples}),
          ableton_live_set_id |-> pid, sample_id |-> sid]}]

\* "if sample not in self.samples: self.samples.append(sample)": the project's
\* collection is loaded from the link table.
link_sample(d, pid, sid) ==
    IF \E l \in d.ableton_live_set_samples :
           l.ableton_live_set_id = pid /\ l.sample_id = sid
    THEN d
    ELSE [d EXCEPT !.ableton_live_set_samples = @ \cup
            {[rowid |-> NextKey({l.rowid : l \in d.ableton_live_set_samples}),
              ableton_live_set_id |-> pid, sample_id |-> sid]}]

\* The loop of update_samples over sample_paths, in the order the set yields.
RECURSIVE attach_samples(_, _, _)
attach_samples(d, pid, order) ==
    IF order = <<>> THEN d
    ELSE attach_samples(
             link_sample(insert_sample(d, Head(order)), pid,
                         first_sample(insert_sample(d, Head(order)), Head(order)).id),
             pid, Tail(order))

\* A commit of the tables d with the object o flushed: the constraints hold and
\* d is the committed state, or IntegrityError and the last commit stands.
commit(s, d, o) ==
    IF UniqueOk(d) THEN [s EXCEPT !.db = d, !.row = o]
    ELSE Raise(s, "IntegrityError")

\* update_samples: nothing touches the session when the file names no sample;
\* otherwise the first query flushes the project object, and the method commits.
update_samples(s, order) ==
    IF s.result # "ok" \/ order = <<>> THEN s
    ELSE commit(s, attach_samples(Flush(s.db, s.row).db,
                                  Flush(s.db, s.row).row.identifier, order),
                Flush(s.db, s.row).row)

\* Variant: the query by name alone.
find_plugin_by_name(d, name, version) == {x \in d.plugins : x.name = name}

\* session.query(Plugin).filter_by(name=..., version=...).first()
find_plugin(d, name, version) ==
    {x \in d.plugins : x.name = name /\ x.version = version}

first_plugin(d, name, version) ==
    CHOOSE x \in find_plugin(d, name, version) :
        \A y \in find_plugin(d, name, version) : x.id <= y.id

\* Plugin.update_installation_status, called by Plugin.__init__: the name is
\* looked up in the class attribute.
update_installation_status(name) == name \in installed_plugins_from_ableton

insert_plugin(d, name, version) ==
    IF find_plugin(d, name, version) # {} THEN d
    ELSE [d EXCEPT !.plugins = @ \cup
            {[id |-> NextKey({x.id : x \in d.plugins}),
              name |-> name, version |-> version,
              installed |-> update_installation_status(name)]}]

\* Variant: the append without the membership test.
link_plugin_append(d, pid, plid) ==
    [d EXCEPT !.ableton_live_set_plugins = @ \cup
        {[rowid |-> NextKey({l.rowid : l \in d.ableton_live_set_plugins}),
          ableton_live_set_id |-> pid, plugin_id |-> plid]}]

link_plugin(d, pid, plid) ==
    IF \E l \in d.ableton_live_set_plugins :
           l.ableton_live_set_id = pid /\ l.plugin_id = plid
    THEN d
    ELSE [d EXCEPT !.ableton_live_set_plugins = @ \cup
            {[rowid |-> NextKey({l.rowid : l \in d.ableton_live_set_plugins}),
              ableton_live_set_id |-> pid, plugin_id |-> plid]}]

\* One of the two loops of update_plugins, over the names of one family.
RECURSIVE attach_plugins(_, _, _, _)
attach_plugins(d, pid, order, version) ==
    IF order = <<>> THEN d
    ELSE attach_plugins(
             link_plugin(insert_plugin(d, Head(order), version), pid,
                         first_plugin(insert_plugin(d, Head(order), version),
                                      Head(order), version).id),
             pid, Tail(order), version)

\* update_plugins: the VST names, then the VST3 names, then always a commit
\* (which flushes the project object also when the file names no plugin).
update_plugins(s, vst_order, vst3_order) ==
    IF s.result # "ok" THEN s
    ELSE commit(s, attach_plugins(
                       attach_plugins(Flush(s.db, s.row).db,
                                      Flush(s.db, s.row).row.identifier,
                                      vst_order, "VST"),
                       Flush(s.db, s.row).row.identifier, vst3_order, "VST3"),
                Flush(s.db, s.row).row)

notes ==
    <<"C", "C#/Db", "D", "D#/Eb", "E", "F", "F#/Gb", "G", "G#/Ab", "A", "A#/Bb", "B">>

get_note_symbol(number) == notes[(number % 12) + 1]

\* The occurrences of x in a list.
Count(lst, x) == Cardinality({i \in DOMAIN lst : lst[i] = x})

\* find_most_frequent: Counter.most_common() lists the elements by count,
\* equal counts in the order of first occurrence.
find_most_frequent(lst) ==
    LET most == Max({Count(lst, lst[i]) : i \in DOMAIN lst})
        least == CHOOSE n \in {Count(lst, lst[i]) : i \in DOMAIN lst} :
                     \A i \in DOMAIN lst : n <= Count(lst, lst[i])
        first == CHOOSE i \in DOMAIN lst :
                     /\ Count(lst, lst[i]) = most
                     /\ \A j \in DOMAIN lst : Count(lst, lst[j]) = most => i <= j
    IN IF most = least THEN lst[1] ELSE lst[first]

\* bool(element) of an xml.etree Element: whether it has child elements.
ElementBool(element) == element.children # 0

\* scale_dict[root_note] = scale_name: a dict keeps the place of a key that it
\* already holds.  An entry is <<key, value>>.
dict_set(dict, key, value) ==
    IF \E i \in DOMAIN dict : dict[i][1] = key
    THEN [i \in DOMAIN dict |-> IF dict[i][1] = key THEN <<key, value>> ELSE dict[i]]
    ELSE Append(dict, <<key, value>>)

\* The loop of update_key over the MidiClip elements (every clip here has its
\* ScaleInformation): the clips with IsInKey "true" whose RootNote and Name
\* elements are both true.
RECURSIVE scale_dict(_)
scale_dict(midi_clips) ==
    IF midi_clips = <<>> THEN <<>>
    ELSE LET midi_clip == midi_clips[Len(midi_clips)]
             before == scale_dict(SubSeq(midi_clips, 1, Len(midi_clips) - 1))
         IN IF /\ midi_clip.is_in_key = "true"
               /\ ElementBool(midi_clip.root_note) /\ ElementBool(midi_clip.name)
            THEN dict_set(before, get_note_symbol(midi_clip.root_note.Value),
                          midi_clip.name.Value)
            ELSE before

\* A text as the sequence of its words: "Unknown", and f"{key} {value}" of a
\* dict entry, which is the entry itself.
Unknown == <<"Unknown">>

update_key(s, f) ==
    IF s.result # "ok" THEN s
    ELSE IF s.row.major_version = Null \/ Val(s.row.major_version) = 0
    THEN [s EXCEPT !.row.key = Some(Unknown)]
    ELSE IF Val(s.row.major_version) < 11
    THEN [s EXCEPT !.row.key = Some(Unknown)]
    ELSE IF scale_dict(f.midi_clips) # <<>>
    THEN [s EXCEPT !.row.key = Some(find_most_frequent(scale_dict(f.midi_clips)))]
    ELSE [s EXCEPT !.row.key = Some(Unknown)]

\* Variant: the first range of the numerator takes 99 in.
_decode_numerator_to_99(encoded_value) ==
    IF encoded_value < 0 THEN 1
    ELSE IF encoded_value <= 99 THEN encoded_value + 1
    ELSE (encoded_value % 99) + 1

_decode_numerator(encoded_value) ==
    IF encoded_value < 0 THEN 1
    ELSE IF encoded_value < 99 THEN encoded_value + 1
    ELSE (encoded_value % 99) + 1

RECURSIVE Pow2(_)
Pow2(e) == IF e <= 0 THEN 1 ELSE 2 * Pow2(e - 1)

\* 2 ** (multiple - 1) with multiple = encoded_value // 99 + 1: an int, and a
\* float when the exponent is negative.
_decode_denominator(encoded_value) ==
    IF encoded_value \div 99 >= 0 THEN PyInt(Pow2(encoded_value \div 99))
    ELSE PyFloat(Frac(1, Pow2(-(encoded_value \div 99))))

\* update_time_signature: ValueError when the marker is absent.
update_time_signature(s, f) ==
    IF s.result # "ok" THEN s
    ELSE IF f.enum_event = Null THEN Raise(s, "ValueError")
    ELSE [s EXCEPT !.row.time_signature =
             Some(<<PyInt(_decode_numerator(Val(f.enum_event))),
                    _decode_denominator(Val(f.enum_event))>>)]

\* calculate_duration: returns without assigning when an operand is falsy.
calculate_duration(s) ==
    IF s.result # "ok" THEN s
    ELSE IF \/ s.row.time_signature = Null
            \/ s.row.tempo = Null \/ Val(s.row.tempo) = 0
            \/ s.row.furthest_bar = Null \/ Val(s.row.furthest_bar).num = 0
    THEN s
    ELSE [s EXCEPT !.row.estimated_duration =
             Some(Frac(Val(s.row.furthest_bar).num
                          * Val(s.row.time_signature)[1].v * 60,
                       Val(s.row.furthest_bar).den * Val(s.row.tempo)))]

generate_file_hash(s, c) ==
    IF s.result # "ok" THEN s
    ELSE [s EXCEPT !.row.file_hash = Some(get_file_hash(c))]

\* The orders in which the three sets of one file may be iterated.
Orders(S) ==
    {q \in [1..Cardinality(S) -> S] : \A i, j \in DOMAIN q : i # j => q[i] # q[j]}

ExtractOrders(file) ==
    IF file = Null THEN {[samples |-> <<>>, vst |-> <<>>, vst3 |-> <<>>]}
    ELSE {[samples |-> a, vst |-> b, vst3 |-> c] :
             a \in Orders(sample_paths(Als(Val(file)))),
             b \in Orders(SeqToSet(Als(Val(file)).vst)),
             c \in Orders(SeqToSet(Als(Val(file)).vst3))}

\* parse_all on object o for the file content c, in the order of the source
\* (update_file_times touches nothing modelled here).
\* parse_all up to and with update_samples, and its first commit.
parse_to_samples(d, o, c, ord) ==
    update_samples(
      collect_sample_paths(
        update_furthest_bar(
          update_tempo(
            load_version(load_xml_data(update_name(Pass(d, o)), Als(c)), Als(c)),
            Als(c)),
          Als(c)),
        Als(c)),
      ord.samples)

\* parse_all up to and with update_plugins, and its second commit.
parse_to_plugins(d, o, c, ord) ==
    update_plugins(parse_to_samples(d, o, c, ord), ord.vst, ord.vst3)

parse_all(d, o, c, ord) ==
    generate_file_hash(
      calculate_duration(
        update_time_signature(
          update_key(parse_to_plugins(d, o, c, ord), Als(c)), Als(c))),
      c)

\* The end of process_file's first and third branch: file_hash, then commit.
\* A failed commit rolls back to the last commit and raises IntegrityError.
commit_hash(s, current_hash) ==
    IF s.result # "ok" THEN s
    ELSE commit(s, Flush(s.db, [s.row EXCEPT !.file_hash = current_hash]).db,
                Flush(s.db, [s.row EXCEPT !.file_hash = current_hash]).row)

Outcome(s, branch) == [result |-> s.result, branch |-> branch, db |-> s.db]

\* Variant: the second branch re-extracts the row it has moved to the path.
process_file_rebind_parses(d, path, file, uuid, ord) ==
    IF file = Null
    THEN [result |-> "FileNotFoundError", branch |-> "none", db |-> d]
    ELSE IF Found(lookup_by_path(d, path))
    THEN Outcome(commit_hash(parse_all(d, lookup_by_path(d, path), Val(file), ord),
                             Some(get_file_hash(Val(file)))),
                 "update")
    ELSE IF Found(lookup_by_hash(d, Some(get_file_hash(Val(file)))))
    THEN Outcome(commit_hash(
                     parse_all(d, [lookup_by_hash(d, Some(get_file_hash(Val(file))))
                                      EXCEPT !.path = path], Val(file), ord),
                     Some(get_file_hash(Val(file)))),
                 "rebind")
    ELSE Outcome(commit_hash(parse_all(d, AbletonLiveSet(path, uuid), Val(file), ord),
                             Some(get_file_hash(Val(file)))),
                 "insert")

\* process_file(path, session) with the file's content (Null: no such file),
\* the uuid a new object would get, and the iteration orders of the sets.
process_file(d, path, file, uuid, ord) ==
    IF file = Null
    THEN [result |-> "FileNotFoundError", branch |-> "none", db |-> d]
    ELSE IF Found(lookup_by_path(d, path))
    THEN Outcome(commit_hash(parse_all(d, lookup_by_path(d, path), Val(file), ord),
                             Some(get_file_hash(Val(file)))),
                 "update")
    ELSE IF Found(lookup_by_hash(d, Some(get_file_hash(Val(file)))))
    THEN [result |-> "ok", branch |-> "rebind",
          db |-> Flush(d, [lookup_by_hash(d, Some(get_file_hash(Val(file))))
                             EXCEPT !.path = path]).db]
    ELSE Outcome(commit_hash(parse_all(d, AbletonLiveSet(path, uuid), Val(file), ord),
                             Some(get_file_hash(Val(file)))),
                 "insert")

\* Variant: a delete that leaves the project's plugin links behind.
delete_keep_plugin_links(d, path) ==
    IF ~Found(lookup_by_path(d, path)) THEN d
    ELSE [d EXCEPT
            !.ableton_live_sets =
                {r \in @ : r.identifier # lookup_by_path(d, path).identifier},
            !.ableton_live_set_samples =
                {l \in @ : l.ableton_live_set_id # lookup_by_path(d, path).identifier}]

\* Variant: a delete that leaves the project's sample links behind.
delete_keep_sample_links(d, path) ==
    IF ~Found(lookup_by_path(d, path)) THEN d
    ELSE [d EXCEPT
            !.ableton_live_sets =
                {r \in @ : r.identifier # lookup_by_path(d, path).identifier},
            !.ableton_live_set_plugins =
                {l \in @ : l.ableton_live_set_id # lookup_by_path(d, path).identifier}]

\* What a reader in another session (the query projection) sees of the
\* project of a path in the committed tables: its row and what it links to.
ReaderView(d, path) ==
    [row |-> lookup_by_path(d, path),
     plugins |-> {<<x.name, x.version>> : x \in
                    {y \in d.plugins :
                        \E l \in d.ableton_live_set_plugins :
                            /\ l.plugin_id = y.id
                            /\ l.ableton_live_set_id = lookup_by_path(d, path).identifier}},
     samples |-> {x.path : x \in
                    {y \in d.samples :
                        \E l \in d.ableton_live_set_samples :
                            /\ l.sample_id = y.id
                            /\ l.ableton_live_set_id = lookup_by_path(d, path).identifier}}]

\* The views that process_file's commits inside parse_all (update_samples,
\* update_plugins) publish before its own commit.
MidViews(d, path, file, uuid, ord) ==
    IF file = Null THEN {}
    ELSE IF Found(lookup_by_path(d, path))
    THEN {ReaderView(parse_to_samples(d, lookup_by_path(d, path), Val(file), ord).db, path),
          ReaderView(parse_to_plugins(d, lookup_by_path(d, path), Val(file), ord).db, path)}
    ELSE IF Found(lookup_by_hash(d, Some(get_file_hash(Val(file))))) THEN {}
    ELSE {ReaderView(parse_to_samples(d, AbletonLiveSet(path, uuid), Val(file), ord).db, path),
          ReaderView(parse_to_plugins(d, AbletonLiveSet(path, uuid), Val(file), ord).db, path)}

\* on_deleted's body: the row of the path, if any, and its rows in both link
\* tables (the relationships' secondary tables) are deleted, then commit.
delete_by_path(d, path) ==
    LET existing_entry == lookup_by_path(d, path)
    IN IF ~Found(existing_entry) THEN d
       ELSE [d EXCEPT
               !.ableton_live_sets = {r \in @ : r.identifier # existing_entry.identifier},
               !.ableton_live_set_plugins =
                   {l \in @ : l.ableton_live_set_id # existing_entry.identifier},
               !.ableton_live_set_samples =
                   {l \in @ : l.ableton_live_set_id # existing_entry.identifier}]

-----------------------------------------------------------------------------
(* Path scanner (utilities.py) *)

\* Stems that start with "._".
SidecarStems == {"._a", "._b"}

filter_als_files(files) ==
    {file \in files :
        /\ \A x \in {"Backup", "backup"} : x \notin SeqToSet(file.parents)
        /\ file.stem \notin SidecarStems}

\* directory.rglob("*.als"): the files below a directory.
get_als_files_from_dir(directory, files) ==
    {p \in Paths : files[p] # Null /\ p.parents[1] = directory}

\* get_als_paths on a directory, search_subfolders=True.
get_als_paths(directory, files) ==
    filter_als_files(get_als_files_from_dir(directory, files))

-----------------------------------------------------------------------------
(* The processes.  main.py removes the catalog file, runs db_manager.py     *)
(* (initial_scan) to its end, then runs file_watcher.py.                    *)

FileStates == {Null} \cup {Some(c) : c \in Contents}

\* The concurrent callers of add_directory and remove_directory.
Callers == {"caller1", "caller2"}

\* The plugin names that Ableton's database may list.
PluginNames == {"Serum"}

\* The plugins and the samples linked to the project of a key.
PluginsOf(d, pid) ==
    {l.plugin_id : l \in {k \in d.ableton_live_set_plugins : k.ableton_live_set_id = pid}}

SamplesOf(d, pid) ==
    {l.sample_id : l \in {k \in d.ableton_live_set_samples : k.ableton_live_set_id = pid}}

\* History of a step: the handler, its path, process_file's branch and the
\* exception that left it, the row it found before it ran, and that row's links.
Step(kind, path, r, prev) ==
    [kind |-> kind, path |-> path, branch |-> r.branch, result |-> r.result,
     prev |-> prev,
     plugins |-> PluginsOf(db, prev.identifier),
     samples |-> SamplesOf(db, prev.identifier),
     mid |-> {}]

NoStep(kind, path) ==
    [kind |-> kind, path |-> path, branch |-> "none", result |-> "ok",
     prev |-> NoRow, plugins |-> {}, samples |-> {}, mid |-> {}]

NoFsOp ==
    [kind |-> "none", src |-> Null, dest |-> Null, how |-> "none",
     row |-> NoRow, file |-> Null, settled |-> FALSE, observed |-> TRUE]

\* The row process_file finds for the path, or else for the file's hash.
PrevRow(path) ==
    LET a == lookup_by_path(db, path)
    IN IF Found(a) \/ fs[path] = Null THEN a
       ELSE lookup_by_hash(db, Some(get_file_hash(Val(fs[path]))))

ScanInit ==
    /\ fs \in [Paths -> FileStates]
    /\ Cardinality({p \in Paths : fs[p] # Null}) <= MaxStartFiles
    /\ ops = 0
    /\ queue = <<>>
    /\ phase = "scan"
    /\ scanTodo = get_als_paths(DIR, fs)
    /\ db = EmptyDb
    /\ nextUuid = 1
    /\ last = NoStep("init", Null)
    /\ lastFs = NoFsOp
    /\ live_db \in SUBSET PluginNames
    /\ installed_plugins_from_ableton = live_db

\* No call on the configuration is under way.
NoCalls == [c \in Callers |-> [op |-> "none", directory |-> Null, pc |-> "done",
                               config |-> <<>>]]

Init ==
    /\ ScanInit
    /\ live_db = {}
    /\ config_toml = directories_paths
    /\ calls = NoCalls
    /\ config_at_start = directories_paths

\* One turn of initial_scan's loop.  An exception ends the scan process.
initial_scan ==
    /\ phase = "scan"
    /\ \E path \in scanTodo :
         \E ord \in ExtractOrders(fs[path]) :
           LET r == process_file(db, path, fs[path], nextUuid, ord) IN
           /\ db' = r.db
           /\ nextUuid' = IF r.branch = "insert" THEN nextUuid + 1 ELSE nextUuid
           /\ scanTodo' = IF r.result = "ok" THEN scanTodo \ {path} ELSE {}
           /\ last' = [Step("scan", path, r, PrevRow(path)) EXCEPT
                         !.mid = MidViews(db, path, fs[path], nextUuid, ord)]
    /\ UNCHANGED configVars
    /\ UNCHANGED <<fs, ops, queue, phase, lastFs, live_db,
                   installed_plugins_from_ableton>>

\* file_watcher.main: the observer starts once db_manager.py has ended.
observer_start ==
    /\ phase = "scan"
    /\ scanTodo = {}
    /\ phase' = "watch"
    /\ installed_plugins_from_ableton' = live_db
    /\ last' = NoStep("observer_start", Null)
    /\ UNCHANGED configVars
    /\ UNCHANGED <<fs, ops, queue, scanTodo, db, nextUuid, lastFs, live_db>>

\* on_created and on_modified have the same body.  An exception that leaves
\* the handler ends the observer's dispatch thread.
handle_process(kind) ==
    /\ phase = "watch"
    /\ queue # <<>>
    /\ Head(queue).event_type = kind
    /\ LET event == Head(queue)
           path == event.src_path
       IN IF event.is_directory \/ path.suffix # ".als"
          THEN /\ last' = NoStep(kind, path)
               /\ UNCHANGED <<db, nextUuid, phase>>
          ELSE \E ord \in ExtractOrders(fs[path]) :
                 LET r == process_file(db, path, fs[path], nextUuid, ord) IN
                 /\ db' = r.db
                 /\ nextUuid' = IF r.branch = "insert" THEN nextUuid + 1 ELSE nextUuid
                 /\ phase' = IF r.result = "ok" THEN "watch" ELSE "dead"
                 /\ last' = [Step(kind, path, r, PrevRow(path)) EXCEPT
                               !.mid = MidViews(db, path, fs[path], nextUuid, ord)]
    /\ queue' = Tail(queue)
    /\ UNCHANGED configVars
    /\ UNCHANGED <<fs, ops, scanTodo, lastFs, live_db,
                   installed_plugins_from_ableton>>

on_modified == handle_process("modified")

on_created == handle_process("created")

on_deleted ==
    /\ phase = "watch"
    /\ queue # <<>>
    /\ Head(queue).event_type = "deleted"
    /\ LET event == Head(queue)
           path == event.src_path
       IN IF event.is_directory \/ path.suffix # ".als"
          THEN /\ last' = NoStep("deleted", path)
               /\ UNCHANGED db
          ELSE /\ db' = delete_by_path(db, path)
               /\ last' = Step("deleted", path, [branch |-> "none", result |-> "ok"],
                             lookup_by_path(db, path))
    /\ queue' = Tail(queue)
    /\ UNCHANGED configVars
    /\ UNCHANGED <<fs, ops, scanTodo, nextUuid, phase, lastFs, live_db,
                   installed_plugins_from_ableton>>

\* FileSystemHandler does not override on_moved: the event is dropped.
on_moved ==
    /\ phase = "watch"
    /\ queue # <<>>
    /\ Head(queue).event_type = "moved"
    /\ queue' = Tail(queue)
    /\ last' = NoStep("moved", Head(queue).src_path)
    /\ UNCHANGED configVars
    /\ UNCHANGED <<fs, ops, scanTodo, db, nextUuid, phase, lastFs, live_db,
                   installed_plugins_from_ableton>>

\* file_watcher.main on KeyboardInterrupt: observer.stop() and observer.join().
\* stop() sets the stop flag that the dispatch loop tests before it takes the
\* next event: the handler that runs ends (a handler is one step here), the
\* events that wait are not taken, and the process ends.
sigint ==
    /\ phase \in {"watch", "dead"}
    /\ phase' = "stopped"
    /\ last' = NoStep("sigint", Null)
    /\ UNCHANGED configVars
    /\ UNCHANGED <<fs, ops, queue, scanTodo, db, nextUuid, lastFs, live_db, installed_plugins_from_ableton>>

-----------------------------------------------------------------------------
(* The user's file operations under the watched directory, and the events  *)
(* the running observer queues for them.                                    *)

Event(type, path) == [event_type |-> type, src_path |-> path, is_directory |-> FALSE]

\* observer.schedule(handler, path=DIR, recursive=True): the events of paths
\* below DIR reach the queue, and only while the observer runs.
Watched(event) == event.src_path.parents[1] = DIR

\* Variant: new events overtake the events that wait.
Emit_front(events) ==
    IF phase = "watch" THEN SelectSeq(events, Watched) \o queue ELSE queue

Emit(events) ==
    IF phase = "watch" THEN queue \o SelectSeq(events, Watched) ELSE queue

\* The catalog had caught up with the directory when the operation was made.
Settled == phase = "watch" /\ queue = <<>>

FsOp(kind, src, dest, how, files, events) ==
    /\ ops < MaxOps
    /\ phase \notin {"dead", "stopped"}
    /\ fs' = files
    /\ ops' = ops + 1
    /\ queue' = Emit(events)
    /\ last' = NoStep(kind, dest)
    /\ lastFs' = [kind |-> kind, src |-> src, dest |-> dest, how |-> how,
                  row |-> lookup_by_path(db, src), file |-> fs[src],
                  settled |-> Settled,
                  observed |-> lastFs.observed /\ phase = "watch"]
    /\ UNCHANGED configVars
    /\ UNCHANGED <<phase, scanTodo, db, nextUuid, live_db,
                   installed_plugins_from_ableton>>

\* Ableton installs or removes a plugin: its database lists the name or not.
LiveInventoryChange ==
    /\ ops < MaxOps
    /\ phase \notin {"dead", "stopped"}
    /\ \E name \in PluginNames :
          live_db' = IF name \in live_db THEN live_db \ {name}
                     ELSE live_db \cup {name}
    /\ ops' = ops + 1
    /\ last' = NoStep("inventory", Null)
    /\ UNCHANGED configVars
    /\ UNCHANGED <<fs, queue, phase, scanTodo, db, nextUuid, lastFs,
                   installed_plugins_from_ableton>>

\* A new file; a copy is a new file with the content of another file.
FsCreate ==
    \E p \in Paths, c \in Contents :
        /\ fs[p] = Null
        /\ Cardinality({q \in Paths : fs[q] # Null}) < MaxFiles
        /\ FsOp("fs_create", p, p, "created", [fs EXCEPT ![p] = Some(c)],
                <<Event("created", p)>>)

\* A file is written again, with new content or with the content it had.
FsModify ==
    \E p \in Paths, c \in Contents :
        /\ fs[p] # Null
        /\ FsOp("fs_modify", p, p, "modified", [fs EXCEPT ![p] = Some(c)],
                <<Event("modified", p)>>)

FsDelete ==
    \E p \in Paths :
        /\ fs[p] # Null
        /\ FsOp("fs_delete", p, p, "deleted", [fs EXCEPT ![p] = Null],
                <<Event("deleted", p)>>)

\* A rename inside the watched directory: the observer reports it as one moved
\* event or as a deleted and a created event, in either order.
RenameEvents(how, p, q) ==
    CASE how = "moved" -> <<Event("moved", p)>>
      [] how = "deleted_created" -> <<Event("deleted", p), Event("created", q)>>
      [] OTHER -> <<Event("created", q), Event("deleted", p)>>

FsRename ==
    \E p \in Paths, q \in Paths :
        /\ fs[p] # Null
        /\ fs[q] = Null
        /\ \E how \in {"moved", "deleted_created", "created_deleted"} :
             FsOp("fs_rename", p, q, how, [fs EXCEPT ![p] = Null, ![q] = fs[p]],
                  RenameEvents(how, p, q))

Next ==
    \/ initial_scan
    \/ observer_start
    \/ on_modified
    \/ on_created
    \/ on_deleted
    \/ on_moved
    \/ FsCreate
    \/ FsModify
    \/ FsDelete
    \/ FsRename

Spec == Init /\ [][Next]_vars

\* The whole life of the program while files are created and rewritten: the
\* scan and the watcher as above, Ableton's inventory changing meanwhile, and
\* the interrupt that ends the watcher.
LifeInit ==
    /\ ScanInit
    /\ config_toml = directories_paths
    /\ calls = NoCalls
    /\ config_at_start = directories_paths

LifeNext ==
    \/ initial_scan
    \/ observer_start
    \/ on_modified
    \/ on_created
    \/ sigint
    \/ FsCreate
    \/ FsModify
    \/ LiveInventoryChange

SpecLife == LifeInit /\ [][LifeNext]_vars

-----------------------------------------------------------------------------
(* The configuration file (utilities.py).  add_directory and               *)
(* remove_directory are called from concurrent callers; each statement     *)
(* that reads or writes config.toml is a step of its caller.               *)

\* The directories a caller may name.
Directories == {"Music", "Live"}

\* The lists of directories without repetition.
DirectoryLists ==
    {q \in UNION {[1..n -> Directories] : n \in 0..Cardinality(Directories)} :
        \A i, j \in DOMAIN q : i # j => q[i] # q[j]}

\* list.remove(x): the list without its first x.
RECURSIVE list_remove(_, _)
list_remove(paths, x) ==
    IF paths = <<>> THEN <<>>
    ELSE IF Head(paths) = x THEN Tail(paths)
    ELSE <<Head(paths)>> \o list_remove(Tail(paths), x)

\* add_directory(new_directory) on the loaded list: lines 38-42.
add_directory(paths, new_directory) ==
    IF new_directory \notin SeqToSet(paths) THEN Append(paths, new_directory)
    ELSE paths

\* remove_directory(directory_to_remove) on the loaded list: lines 69-70.
remove_directory(paths, directory_to_remove) ==
    IF directory_to_remove \in SeqToSet(paths)
    THEN list_remove(paths, directory_to_remove)
    ELSE paths

\* The whole call, run alone.
ApplyCall(call, paths) ==
    IF call.op = "add_directory" THEN add_directory(paths, call.directory)
    ELSE remove_directory(paths, call.directory)

ConfigInit ==
    /\ fs = [p \in Paths |-> Null]
    /\ ops = 0
    /\ queue = <<>>
    /\ phase = "scan"
    /\ scanTodo = {}
    /\ db = EmptyDb
    /\ nextUuid = 1
    /\ last = NoStep("init", Null)
    /\ lastFs = NoFsOp
    /\ live_db = {}
    /\ installed_plugins_from_ableton = {}
    /\ config_toml \in DirectoryLists
    /\ config_at_start = config_toml
    /\ calls \in [Callers -> [op : {"add_directory", "remove_directory"},
                              directory : Directories,
                              pc : {"load"}, config : {<<>>}]]

\* config = toml.load("config.toml") and the change of the loaded list.  An
\* empty or a truncated file loads as no directories at all.  remove_directory
\* returns without writing when the directory is not listed.
config_load(c) ==
    /\ calls[c].pc = "load"
    /\ calls' = [calls EXCEPT
                   ![c].config = ApplyCall(calls[c], config_toml),
                   ![c].pc = IF /\ calls[c].op = "remove_directory"
                                /\ calls[c].directory \notin SeqToSet(config_toml)
                             THEN "done" ELSE "open"]
    /\ UNCHANGED <<config_toml, config_at_start>>
    /\ UNCHANGED scanVars

\* open("config.toml", "w"): the file is truncated.
config_open(c) ==
    /\ calls[c].pc = "open"
    /\ config_toml' = <<>>
    /\ calls' = [calls EXCEPT ![c].pc = "dump"]
    /\ UNCHANGED config_at_start
    /\ UNCHANGED scanVars

\* toml.dump(config, toml_file): the caller's list is written.
config_dump(c) ==
    /\ calls[c].pc = "dump"
    /\ config_toml' = calls[c].config
    /\ calls' = [calls EXCEPT ![c].pc = "done"]
    /\ UNCHANGED config_at_start
    /\ UNCHANGED scanVars

ConfigNext ==
    \/ \E c \in Callers : config_load(c)
    \/ \E c \in Callers : config_open(c)
    \/ \E c \in Callers : config_dump(c)

SpecConfig == ConfigInit /\ [][ConfigNext]_vars

-----------------------------------------------------------------------------
(* One project file.  The configured root holds one file, of any content:  *)
(* the scan indexes it, the observer starts, the file is saved again and   *)
(* the modified events are handled.                                        *)

ParsePath == MkPath(<<DIR>>, "a")

ParseInit ==
    /\ \E c \in Contents \cup ProbeContents \cup EncodedContents :
          fs = [p \in Paths |-> IF p = ParsePath THEN Some(c) ELSE Null]
    /\ ops = 0
    /\ queue = <<>>
    /\ phase = "scan"
    /\ scanTodo = get_als_paths(DIR, fs)
    /\ db = EmptyDb
    /\ nextUuid = 1
    /\ last = NoStep("init", Null)
    /\ lastFs = NoFsOp
    /\ live_db = {}
    /\ installed_plugins_from_ableton = live_db
    /\ config_toml = directories_paths
    /\ calls = NoCalls
    /\ config_at_start = directories_paths

\* The file is saved again.
FsRewrite ==
    \E c \in Contents \cup ProbeContents :
        /\ fs[ParsePath] # Null
        /\ ops < MaxRewrites
        /\ FsOp("fs_modify", ParsePath, ParsePath, "modified",
                [fs EXCEPT ![ParsePath] = Some(c)], <<Event("modified", ParsePath)>>)

ParseNext ==
    \/ initial_scan
    \/ observer_start
    \/ on_modified
    \/ FsRewrite

SpecParse == ParseInit /\ [][ParseNext]_vars

-----------------------------------------------------------------------------
(* Properties *)

Projects == db.ableton_live_sets

\* The step just taken was a reconciliation pass (process_file ran).
IsPass(l) == l.kind \in {"scan", "created", "modified"} /\ l.branch # "none"

\* C1: in every reachable catalog state every project row p is the row found
\* by its path and the row found by its file_hash (no two rows share a path, no
\* two rows share a file_hash).
C1_LookupsResolve ==
    \A p \in Projects :
        /\ lookup_by_path(db, p.path) = LoadRow(p)
        /\ lookup_by_hash(db, p.file_hash) = LoadRow(p)

\* The digest of the file now at a path.
HashAt(files, path) == Some(get_file_hash(Val(files[path])))

\* A readable file in which every element the extractors read is present.
WellFormed(file) ==
    /\ file # Null
    /\ Als(Val(file)).gzip /\ Als(Val(file)).xml
    /\ Als(Val(file)).tempo # Null /\ Als(Val(file)).enum_event # Null

\* C2: a pass on a path that has a row, reading a readable well-formed file of
\* hash H, leaves that row with file_hash H, whatever the catalog held before
\* (also when another row already carries H).
C2_PassSetsHash ==
    [][(/\ IsPass(last')
        /\ last'.branch = "update"
        /\ WellFormed(fs[last'.path]))
       => lookup_by_path(db', last'.path).file_hash = HashAt(fs, last'.path)]_vars

\* The rename of an indexed file, its content unchanged, has been reported as a
\* deleted and a created event, and both have been handled.
RenameHandled ==
    /\ lastFs.kind = "fs_rename"
    /\ lastFs.how \in {"deleted_created", "created_deleted"}
    /\ lastFs.settled
    /\ Found(lastFs.row)
    /\ lastFs.row.file_hash = Some(get_file_hash(Val(lastFs.file)))
    /\ Settled

\* C3: after a rename reported as deleted + created (either order) there is
\* exactly one row for the content, with the identifier and the uuid the row
\* had before the rename.
C3_RenameKeepsRow ==
    RenameHandled =>
        /\ Cardinality({r \in Projects : r.file_hash = lastFs.row.file_hash}) = 1
        /\ \A r \in Projects :
              r.file_hash = lastFs.row.file_hash =>
                  /\ r.identifier = lastFs.row.identifier
                  /\ r.uuid = lastFs.row.uuid

\* C4: a modified event for an indexed path whose file now has a hash new to
\* the catalog keeps the number of rows, and the row of the path keeps its
\* identifier and uuid and takes the new file_hash and the new tempo.
C4_ModifiedUpdatesInPlace ==
    [][(/\ last'.kind = "modified"
        /\ last'.branch = "update"
        /\ WellFormed(fs[last'.path])
        /\ \A r \in Projects : r.file_hash # HashAt(fs, last'.path))
       => /\ Cardinality(db'.ableton_live_sets) = Cardinality(Projects)
          /\ lookup_by_path(db', last'.path).identifier = last'.prev.identifier
          /\ lookup_by_path(db', last'.path).uuid = last'.prev.uuid
          /\ lookup_by_path(db', last'.path).file_hash = HashAt(fs, last'.path)
          /\ lookup_by_path(db', last'.path).tempo = Als(Val(fs[last'.path])).tempo]_vars

Keys(rows) == {r.identifier : r \in rows}

\* C5: a pass on a path whose row already carries the hash of the file leaves
\* the row's file_hash and its linked plugins and samples as they were, and
\* adds or removes no project, plugin, sample or link row.
C5_UnchangedIsNoOp ==
    [][(/\ IsPass(last')
        /\ last'.branch = "update"
        /\ last'.prev.file_hash = HashAt(fs, last'.path))
       => /\ lookup_by_path(db', last'.path).file_hash = last'.prev.file_hash
          /\ PluginsOf(db', last'.prev.identifier) = last'.plugins
          /\ SamplesOf(db', last'.prev.identifier) = last'.samples
          /\ Keys(db'.ableton_live_sets) = Keys(Projects)
          /\ db'.plugins = db.plugins
          /\ db'.samples = db.samples
          /\ db'.ableton_live_set_plugins = db.ableton_live_set_plugins
          /\ db'.ableton_live_set_samples = db.ableton_live_set_samples]_vars

C5_Witness ==
    /\ last.kind = "modified"
    /\ last.branch = "update"
    /\ last.result = "ok"
    /\ last.prev.file_hash = HashAt(fs, last.path)
    /\ last.plugins # {}
    /\ last.samples # {}

\* C6: a deleted event for an indexed path removes the project row and every
\* link of that project in both link tables and removes no plugin or sample
\* row; no step ever removes a plugin row or a sample row.
C6_DeleteRemovesRowAndLinks ==
    [][/\ db.plugins \subseteq db'.plugins
       /\ db.samples \subseteq db'.samples
       /\ (last'.kind = "deleted" /\ Found(last'.prev))
          => /\ ~Found(lookup_by_path(db', last'.path))
             /\ last'.prev.identifier \notin Keys(db'.ableton_live_sets)
             /\ PluginsOf(db', last'.prev.identifier) = {}
             /\ SamplesOf(db', last'.prev.identifier) = {}
             /\ db'.plugins = db.plugins
             /\ db'.samples = db.samples]_vars

C6_Witness ==
    /\ last.kind = "deleted"
    /\ Found(last.prev)
    /\ last.plugins # {}
    /\ last.samples # {}
    /\ last.plugins \subseteq {x.id : x \in db.plugins}
    /\ last.samples \subseteq {x.id : x \in db.samples}

\* C7: in every reachable state every plugin link names a project row and a
\* plugin row that exist, and every sample link names a project row and a
\* sample row that exist.
C7_LinksResolve ==
    /\ \A l \in db.ableton_live_set_plugins :
          /\ l.ableton_live_set_id \in Keys(Projects)
          /\ l.plugin_id \in {x.id : x \in db.plugins}
    /\ \A l \in db.ableton_live_set_samples :
          /\ l.ableton_live_set_id \in Keys(Projects)
          /\ l.sample_id \in {x.id : x \in db.samples}

\* A deleted event has removed a linked project while a row that a failed pass
\* left without file_hash still has its links.
C7_Witness ==
    /\ last.kind = "deleted"
    /\ Found(last.prev)
    /\ last.plugins # {}
    /\ \E p \in Projects :
          /\ p.file_hash = Null
          /\ PluginsOf(db, p.identifier) # {}
          /\ SamplesOf(db, p.identifier) # {}

\* The plugin rows of a name and a family.
PluginRows(name, version) ==
    {x \in db.plugins : x.name = name /\ x.version = version}

\* C8: no two plugin rows share (name, version family); a project whose file
\* names a plugin is linked to the one row of that name and family, so projects
\* naming the same plugin share the row; the same name as VST and as VST3 has
\* two rows.
C8_PluginsShared ==
    /\ \A x, y \in db.plugins :
          x # y => <<x.name, x.version>> # <<y.name, y.version>>
    /\ \A p \in Projects, c \in Contents :
          p.file_hash = Some(get_file_hash(c)) =>
              /\ \A n \in SeqToSet(Als(c).vst) :
                    /\ Cardinality(PluginRows(n, "VST")) = 1
                    /\ \A x \in PluginRows(n, "VST") :
                          x.id \in PluginsOf(db, p.identifier)
              /\ \A n \in SeqToSet(Als(c).vst3) :
                    /\ Cardinality(PluginRows(n, "VST3")) = 1
                    /\ \A x \in PluginRows(n, "VST3") :
                          x.id \in PluginsOf(db, p.identifier)

\* Two projects are linked to one VST3 row, and its name has a VST row too.
C8_Witness ==
    \E x \in db.plugins :
        /\ x.version = "VST3"
        /\ Cardinality({l.ableton_live_set_id :
                          l \in {k \in db.ableton_live_set_plugins :
                                     k.plugin_id = x.id}}) = 2
        /\ PluginRows(x.name, "VST") # {}

\* C9: no two sample rows share a path; a project whose file names a path,
\* once or several times, is linked to the one row of that path by exactly one
\* link row.
C9_SamplesShared ==
    /\ \A x, y \in db.samples : x # y => x.path # y.path
    /\ \A l, k \in db.ableton_live_set_samples :
          (l.ableton_live_set_id = k.ableton_live_set_id /\ l.sample_id = k.sample_id)
              => l = k
    /\ \A p \in Projects, c \in Contents :
          p.file_hash = Some(get_file_hash(c)) =>
              \A n \in SeqToSet(Als(c).sample_refs) :
                  /\ Cardinality({x \in db.samples : x.path = n}) = 1
                  /\ \A x \in {y \in db.samples : y.path = n} :
                        x.id \in SamplesOf(db, p.identifier)

\* One sample row is linked from two projects, one of which has been reconciled
\* again and names the path twice.
C9_Witness ==
    /\ IsPass(last)
    /\ last.branch = "update"
    /\ last.result = "ok"
    /\ fs[last.path] = Some(1)
    /\ \E x \in db.samples :
          Cardinality({l.ableton_live_set_id :
                          l \in {k \in db.ableton_live_set_samples :
                                     k.sample_id = x.id}}) = 2

\* C10: when every file operation was made while the observer ran and the
\* observer has handled every event, every indexable file has a row with its
\* path and every row's path names a file that exists.
C10_CatalogInSync ==
    (Settled /\ lastFs.observed) =>
        /\ \A p \in Paths : WellFormed(fs[p]) => \E r \in Projects : r.path = p
        /\ \A r \in Projects : fs[r.path] # Null

\* C11: no project row ever has a path with a parent directory component
\* "Backup" or "backup", whether the file is met by the scan or reported by a
\* created or modified event.
C11_NoBackupRow ==
    \A r \in Projects :
        \A x \in {"Backup", "backup"} : x \notin SeqToSet(r.path.parents)

\* The handlers that run process_file.
PassKinds == {"scan", "created", "modified"}

\* What a pass raises for a file that is gone (open in get_file_hash), for an
\* invalid gzip envelope, and for malformed XML (the missing root).
AbortErrors == {"FileNotFoundError", "BadGzipFile", "AttributeError"}

C13_ErrorsDoNotTerminate ==
    [][(last'.kind \in PassKinds /\ last'.result # "ok")
       => /\ phase' # "dead"
          /\ last'.kind = "scan" => scanTodo' = scanTodo \ {last'.path}]_vars

\* C14: a pass commits once: what a concurrent reader can see of the project
\* while the pass runs is its state before the pass or its state after the
\* whole pass.
C14_SingleTransaction ==
    [][IsPass(last')
       => last'.mid \subseteq {ReaderView(db, last'.path), ReaderView(db', last'.path)}]_vars

\* A valid file in which only the time-signature marker is absent.
MarkerAbsent(file) ==
    /\ file # Null
    /\ Als(Val(file)).gzip /\ Als(Val(file)).xml
    /\ Als(Val(file)).tempo # Null /\ Als(Val(file)).enum_event = Null

\* C15: when only the time-signature marker is absent the pass does not fail:
\* it leaves time_signature at its prior (or null) value and commits the row
\* with the hash of the file.
C15_MarkerAbsenceRecovered ==
    [][(/\ IsPass(last')
        /\ last'.branch \in {"update", "insert"}
        /\ MarkerAbsent(fs[last'.path]))
       => /\ last'.result = "ok"
          /\ Found(lookup_by_path(db', last'.path))
          /\ lookup_by_path(db', last'.path).file_hash = HashAt(fs, last'.path)
          /\ lookup_by_path(db', last'.path).time_signature =
                 (IF Found(last'.prev) THEN last'.prev.time_signature ELSE Null)]_vars

\* The files the scan of a root is to find (filter_als_files applied).
Scannable(root) == get_als_paths(root, fs)

\* C16: at startup every configured root is scanned before the observer
\* starts (with well-formed files and no file operation since the start,
\* every file of every root is in the catalog by its hash when the observer
\* runs), and afterwards every configured root is watched (a file operation
\* below any root queues its event).
C16_AllRootsScannedThenWatched ==
    /\ []((/\ phase = "watch"
           /\ ops = 0
           /\ \A p \in Paths : fs[p] = Null \/ WellFormed(fs[p]))
          => \A i \in DOMAIN directories_paths :
                 \A p \in Scannable(directories_paths[i]) :
                     \E r \in Projects : r.file_hash = HashAt(fs, p))
    /\ [][(/\ phase = "watch"
           /\ ops' = ops + 1
           /\ lastFs'.kind \in {"fs_create", "fs_modify", "fs_delete"}
           /\ \E i \in DOMAIN directories_paths :
                 lastFs'.dest.parents[1] = directories_paths[i])
          => queue' # queue]_vars

IsPrefix(a, b) == Len(a) <= Len(b) /\ SubSeq(b, 1, Len(a)) = a

EventKinds == {"created", "modified", "deleted", "moved"}

C18_ShutdownDrains == phase = "stopped" => queue = <<>>

\* C19: the installed flag of a plugin row, set when the row is inserted, is
\* true exactly when the plugin's name is in the inventory as it is during the
\* pass that inserts the row.
C19_InstalledFlagFresh ==
    [][\A x \in db'.plugins \ db.plugins : x.installed = (x.name \in live_db)]_vars

\* The lists that the calls give when they run one after the other, in either
\* order.
SequentialResults ==
    {ApplyCall(calls[c], ApplyCall(calls[b], config_at_start)) :
        <<b, c>> \in {q \in Callers \X Callers : q[1] # q[2]}}

\* C20: when the concurrent add_directory and remove_directory calls have
\* returned, the list in the file is what the calls give in some sequential
\* order.
C20_ConfigSerialized ==
    (\A c \in Callers : calls[c].pc = "done" /\ calls[c].op # "none")
        => config_toml \in SequentialResults

-----------------------------------------------------------------------------
(* The query projection (api.py) *)

\* The parameter that sqlite3 binds for "?": live_set[0] is an int, live_set[1]
\* is the text of the path column.
SqlInteger(n) == [t |-> "integer", v |-> n]
SqlText(s) == [t |-> "text", v |-> s]

\* "ableton_live_set_id = ?" on the INTEGER column of a link table: the text of
\* a path (it ends in ".als") is no integer and equals no key.
ColumnEquals(column, param) == param.t = "integer" /\ column = param.v

\* get_ableton_live_sets: one object per project row, with the two joins.  The
\* plugins join is given live_set[0], the samples join live_set[1].  A sample's
\* name is the last component of its path (here the whole path).
get_ableton_live_sets(d) ==
    {[identifier |-> r.identifier, path |-> r.path, file_hash |-> r.file_hash,
      name |-> r.name, tempo |-> r.tempo, time_signature |-> r.time_signature,
      estimated_duration |-> r.estimated_duration,
      plugins |-> {[id |-> x.id, name |-> x.name] : x \in
                     {y \in d.plugins :
                         \E l \in d.ableton_live_set_plugins :
                             /\ l.plugin_id = y.id
                             /\ ColumnEquals(l.ableton_live_set_id,
                                             SqlInteger(r.identifier))}},
      samples |-> {[id |-> x.id, name |-> x.path] : x \in
                     {y \in d.samples :
                         \E l \in d.ableton_live_set_samples :
                             /\ l.sample_id = y.id
                             /\ ColumnEquals(l.ableton_live_set_id,
                                             SqlText(r.path))}}] :
        r \in d.ableton_live_sets}

\* C21: for every project row of the committed catalog the projection has an
\* object with the row's fields, whose plugins array is exactly the plugins
\* linked to the project and whose samples array is exactly the samples linked
\* to the project.
C21_ProjectionJoins ==
    \A r \in Projects :
        \E e \in get_ableton_live_sets(db) :
            /\ e.identifier = r.identifier
            /\ e.path = r.path
            /\ e.file_hash = r.file_hash
            /\ e.name = r.name
            /\ e.tempo = r.tempo
            /\ e.time_signature = r.time_signature
            /\ e.estimated_duration = r.estimated_duration
            /\ e.plugins = {[id |-> x.id, name |-> x.name] : x \in
                              {y \in db.plugins : y.id \in PluginsOf(db, r.identifier)}}
            /\ e.samples = {[id |-> x.id, name |-> x.path] : x \in
                              {y \in db.samples : y.id \in SamplesOf(db, r.identifier)}}

\* The (name, family) plugins and the sample paths that a file references.
ReferencedPlugins(file) ==
    {<<n, "VST">> : n \in SeqToSet(Als(Val(file)).vst)}
        \cup {<<n, "VST3">> : n \in SeqToSet(Als(Val(file)).vst3)}

ReferencedSamples(file) == SeqToSet(Als(Val(file)).sample_refs)

\* C22: after a pass on a path completes, the plugins linked to the path's row
\* are exactly the (name, family) plugins that the file now references and the
\* samples linked to it are exactly the sample paths it references, so that a
\* reference removed by an in-place edit is no longer linked.
C22_LinksFollowContent ==
    [][(IsPass(last') /\ last'.result = "ok")
       => /\ ReaderView(db', last'.path).plugins = ReferencedPlugins(fs[last'.path])
          /\ ReaderView(db', last'.path).samples = ReferencedSamples(fs[last'.path])]_vars

\* C23: a pass on a path that has no row, while a row B carries the hash of
\* the file, changes nothing but B's path: no row is created, no extraction
\* runs (nothing is committed in between), B keeps its identifier, uuid,
\* file_hash, name, extracted fields and links, and every other row of every
\* table is unchanged.
C23_RebindChangesPathOnly ==
    [][(/\ IsPass(last')
        /\ ~Found(lookup_by_path(db, last'.path))
        /\ \E b \in Projects : b.file_hash = HashAt(fs, last'.path))
       => /\ last'.result = "ok"
          /\ last'.mid = {}
          /\ \E b \in Projects :
                /\ b.file_hash = HashAt(fs, last'.path)
                /\ db'.ableton_live_sets =
                       (Projects \ {b}) \cup {[b EXCEPT !.path = last'.path]}
          /\ db'.plugins = db.plugins
          /\ db'.samples = db.samples
          /\ db'.ableton_live_set_plugins = db.ableton_live_set_plugins
          /\ db'.ableton_live_set_samples = db.ableton_live_set_samples]_vars

\* A created event has moved a linked row to its new path while another row
\* exists.
C23_Witness ==
    /\ last.kind = "created"
    /\ last.branch = "rebind"
    /\ last.result = "ok"
    /\ last.prev.path # last.path
    /\ lookup_by_path(db, last.path).identifier = last.prev.identifier
    /\ last.plugins # {}
    /\ last.samples # {}
    /\ Cardinality(Projects) = 2

\* furthest_bar x beats_per_bar x 60 / tempo of a row's columns, in whole
\* milliseconds (the resolution of the column); 0 when an operand is missing
\* or zero.
DurationOf(r) ==
    IF \/ r.furthest_bar = Null \/ r.time_signature = Null \/ r.tempo = Null
    THEN 0
    ELSE IF \/ Val(r.furthest_bar).num = 0 \/ Val(r.tempo) = 0
            \/ Val(r.time_signature).parts[1].num = 0
    THEN 0
    ELSE (2 * Val(r.furthest_bar).num * Val(r.time_signature).parts[1].num * 60 * 1000
            + Val(r.furthest_bar).den * Val(r.tempo))
         \div (2 * Val(r.furthest_bar).den * Val(r.tempo))

\* C24: the row that a completed pass commits has an estimated_duration equal
\* to furthest_bar x beats_per_bar x 60 / tempo of its own furthest_bar,
\* time-signature numerator and tempo, and zero when one of them is missing or
\* zero, also when the row had a non-zero duration before the pass.
C24_DurationFollowsRow ==
    [][(/\ IsPass(last')
        /\ last'.branch \in {"update", "insert"}
        /\ last'.result = "ok")
       => \A r \in db'.ableton_live_sets :
              r.path = last'.path
                  => r.estimated_duration = Some([milliseconds |-> DurationOf(r)])]_vars

\* m / n for a file: m its largest CurrentEnd (0 bars when it has none), n the
\* numerator that its time-signature marker decodes to.
BarsOf(file) ==
    IF Als(Val(file)).current_end = <<>> THEN Frac(0, 1)
    ELSE Frac(Max(SeqToSet(Als(Val(file)).current_end)),
              _decode_numerator(Val(Als(Val(file)).enum_event)))

\* C25: after a pass on a well-formed file, the first for its path or a later
\* one, the row's furthest_bar is the file's largest CurrentEnd divided by the
\* numerator of the file's own time signature, and 0 without CurrentEnd.
C25_FurthestBarOwnNumerator ==
    [][(/\ IsPass(last')
        /\ last'.branch \in {"update", "insert"}
        /\ last'.result = "ok"
        /\ WellFormed(fs[last'.path]))
       => lookup_by_path(db', last'.path).furthest_bar
              = Some(BarsOf(fs[last'.path]))]_vars

\* The text of a positive integer ("4", not "0.5" and not "4.0").
PositiveInteger(text) == ~text.point /\ text.den = 1 /\ text.num > 0

\* C26: whatever integer the time-signature marker holds, negative values
\* included, the stored time_signature has a positive integer numerator and a
\* positive integer denominator that is a power of two.
C26_TimeSignatureWellFormed ==
    \A r \in Projects :
        r.time_signature # Null
            => /\ Len(Val(r.time_signature).parts) = 2
               /\ PositiveInteger(Val(r.time_signature).parts[1])
               /\ PositiveInteger(Val(r.time_signature).parts[2])
               /\ \E k \in 0..MaxEncoded :
                      Val(r.time_signature).parts[2].num = Pow2(k)

\* The text of the number 2^e, e any integer: "4", "1", "0.5".
TwoToThe(e) ==
    IF e >= 0 THEN [num |-> Pow2(e), den |-> 1, point |-> FALSE]
    ELSE [num |-> 1, den |-> Pow2(-e), point |-> TRUE]

\* The numerator that the decoder laws give for v.
LawNumerator(v) ==
    CASE v < 0 -> 1
      [] v >= 0 /\ v < 99 -> v + 1
      [] v >= 99 -> (v % 99) + 1

\* The encoded value in the file that a row was last read from.
EncodedOf(r) == Als(Val(r.file_hash).sha256).enum_event

\* C27: for every encoded value v of the range, the time signature stored for
\* a file whose marker holds v has the numerator 1 for v < 0, v + 1 for
\* 0 <= v < 99 and (v mod 99) + 1 for v >= 99, and the denominator
\* 2^(v div 99) (div rounds down); v = 3 gives (4, 1).
C27_DecoderLaws ==
    \A r \in Projects :
        (r.file_hash # Null /\ EncodedOf(r) # Null)
            => /\ r.time_signature =
                      Some([sep |-> "/",
                            parts |-> <<[num |-> LawNumerator(Val(EncodedOf(r))),
                                         den |-> 1, point |-> FALSE],
                                        TwoToThe(Val(EncodedOf(r)) \div 99)>>])
               /\ Val(EncodedOf(r)) = 3
                      => Val(r.time_signature).parts
                             = <<[num |-> 4, den |-> 1, point |-> FALSE],
                                 [num |-> 1, den |-> 1, point |-> FALSE]>>

\* A file whose marker holds 99 or more has been indexed, after one with a
\* smaller value.
C27_Witness ==
    /\ last.kind = "modified"
    /\ last.result = "ok"
    /\ \E r \in Projects :
          /\ r.file_hash # Null
          /\ EncodedOf(r) = Some(201)
          /\ Val(r.time_signature).parts[2].num = 4

\* The "<note> <scale-name>" texts of the MIDI clips of a file that are in a
\* key, one per clip, in document order.
RECURSIVE InKeyTexts(_)
InKeyTexts(midi_clips) ==
    IF midi_clips = <<>> THEN <<>>
    ELSE IF Head(midi_clips).is_in_key = "true"
    THEN <<<<get_note_symbol(Head(midi_clips).root_note.Value),
             Head(midi_clips).name.Value>>>> \o InKeyTexts(Tail(midi_clips))
    ELSE InKeyTexts(Tail(midi_clips))

\* The texts that no other text of the list outnumbers.
MostFrequent(lst) ==
    {lst[i] : i \in {j \in DOMAIN lst :
                        \A k \in DOMAIN lst : Count(lst, lst[k]) <= Count(lst, lst[j])}}

\* All the texts of the list occur the same number of times.
AllEqual(lst) == \A i, j \in DOMAIN lst : Count(lst, lst[i]) = Count(lst, lst[j])

\* C28: after a pass on a file of Live 11 or later the stored key is the most
\* frequent "<note> <scale-name>" text over the MIDI clips with IsInKey "true",
\* each clip counted once, and the first observed when all occur equally
\* often; it is "Unknown" when there is no such clip and for an earlier Live.
C28_KeyMostFrequent ==
    [][(/\ IsPass(last')
        /\ last'.branch \in {"update", "insert"}
        /\ last'.result = "ok")
       => LET f == Als(Val(fs[last'.path]))
              key == lookup_by_path(db', last'.path).key
          IN IF f.version[1] < 11 \/ InKeyTexts(f.midi_clips) = <<>>
             THEN key = Some(Unknown)
             ELSE /\ key # Null
                  /\ Val(key) \in MostFrequent(InKeyTexts(f.midi_clips))
                  /\ AllEqual(InKeyTexts(f.midi_clips))
                         => Val(key) = InKeyTexts(f.midi_clips)[1]]_vars

\* The paths of the Data texts of a file that are hexadecimal UTF-16.
DecodablePaths(f) ==
    {Val(f.sample_data[i]).path :
        i \in {j \in DOMAIN f.sample_data :
                  f.sample_data[j] # Null /\ Val(f.sample_data[j]).kind = "utf16"}}

\* C29: a pass on a file of a Live before 11 in which the Data text of a
\* SampleRef is empty, is not hexadecimal or does not decode as UTF-16 skips
\* that reference: the pass does not fail, the row is committed with the hash
\* of the file, the references that decode are linked to it and, on a new row,
\* nothing else is.
C29_BadSampleRefSkipped ==
    [][(/\ IsPass(last')
        /\ last'.branch \in {"update", "insert"}
        /\ WellFormed(fs[last'.path])
        /\ Als(Val(fs[last'.path])).version[1] < 11)
       => /\ last'.result = "ok"
          /\ lookup_by_path(db', last'.path).file_hash = HashAt(fs, last'.path)
          /\ DecodablePaths(Als(Val(fs[last'.path])))
                 \subseteq ReaderView(db', last'.path).samples
          /\ last'.branch = "insert"
                 => ReaderView(db', last'.path).samples
                        = DecodablePaths(Als(Val(fs[last'.path])))]_vars

\* A tuple read back from the catalog is a tuple of ints.
TupleOfInt(value) == \A i \in DOMAIN Val(value) : Val(value)[i].t = "int"

\* C30: the time_signature and the major_minor_patch of every row read back
\* from the catalog as tuples of integers, and the re-extraction of a row read
\* from the catalog, for a well-formed file of Live 11, completes.
C30_TuplesReadBackAsInt ==
    /\ [](\A r \in Projects :
             /\ r.time_signature # Null => TupleOfInt(LoadRow(r).time_signature)
             /\ r.major_minor_patch # Null => TupleOfInt(LoadRow(r).major_minor_patch))
    /\ [][(/\ IsPass(last')
           /\ last'.branch = "update"
           /\ WellFormed(fs[last'.path])
           /\ Als(Val(fs[last'.path])).version[1] >= 11)
          => last'.result = "ok"]_vars

=============================================================================
